---- MODULE Spec2Model ----
(***************************************************************************)
(* The two command-line tools of ollama-benchmark as one state machine:    *)
(*   speed.py   benchmark_inference_speed and its __main__ block           *)
(*   images.py  process_images, its helpers and its __main__ block         *)
(* Strings that the code takes apart (model names, paths, prompts) are     *)
(* sequences of one-character strings, so that replace, basename,          *)
(* splitext, strip and the lexicographic sort are computed.                *)
(***************************************************************************)
EXTENDS Integers, Sequences, FiniteSets, TLC

\* ------------------------------------------------------------- bounds
\* longest -m list
MaxModels == 2
\* longest -i list
MaxImages == 2
\* largest -n value
MaxRuns == 3

\* ------------------------------------------------- Python values
\* An optional value: None is the empty tuple, a present value v is <<v>>.
None == <<>>
Some(v) == <<v>>
Val(o) == o[1]

\* Python truthiness of an optional str or list (None and empty are false).
TruthySeq(o) == o # None /\ Val(o) # <<>>
\* Python truthiness of an optional int (None and 0 are false).
TruthyInt(o) == o # None /\ Val(o) # 0

SeqsUpTo(S, n) == UNION {[1..k -> S] : k \in 1..n}

RECURSIVE Concat(_)
\* The concatenation of a sequence of sequences.
Concat(ss) == IF ss = <<>> THEN <<>> ELSE Head(ss) \o Concat(Tail(ss))

\* The largest index of s holding c, 0 when there is none (str.rfind + 1).
LastIndex(s, c) ==
  IF \E k \in DOMAIN s : s[k] = c
  THEN CHOOSE k \in DOMAIN s : s[k] = c /\ \A j \in DOMAIN s : s[j] = c => j <= k
  ELSE 0

StartsWith(s, p) == Len(s) >= Len(p) /\ SubSeq(s, 1, Len(p)) = p

\* The characters the model's strings use, in code-point order.
AsciiOrder ==
  <<" ", "-", ".", "/", ":", "G", "N", "P", "_", "a", "b", "c", "d", "e",
    "g", "i", "j", "l", "m", "n", "o", "p", "r", "s", "t", "v", "w", "x", "y", "z">>
Ord(c) == CHOOSE k \in DOMAIN AsciiOrder : AsciiOrder[k] = c

RECURSIVE StrLess(_, _)
\* Python's < on str: lexicographic by code point.
StrLess(s, t) ==
  IF t = <<>> THEN FALSE
  ELSE IF s = <<>> THEN TRUE
  ELSE IF Head(s) # Head(t) THEN Ord(Head(s)) < Ord(Head(t))
  ELSE StrLess(Tail(s), Tail(t))

RECURSIVE SortedSeq(_)
\* sorted(...) of a set of distinct strings.
SortedSeq(S) ==
  IF S = {} THEN <<>>
  ELSE LET m == CHOOSE x \in S : \A y \in S \ {x} : StrLess(x, y)
       IN  <<m>> \o SortedSeq(S \ {m})

LowerChar(c) ==
  CASE c = "G" -> "g" [] c = "N" -> "n" [] c = "P" -> "p" [] OTHER -> c
\* str.lower()
Lower(s) == [k \in DOMAIN s |-> LowerChar(s[k])]

Whitespace == {" ", "\n", "\t"}
RECURSIVE LStrip(_)
LStrip(s) == IF s # <<>> /\ Head(s) \in Whitespace THEN LStrip(Tail(s)) ELSE s
RECURSIVE RStrip(_)
RStrip(s) ==
  IF s # <<>> /\ s[Len(s)] \in Whitespace THEN RStrip(SubSeq(s, 1, Len(s) - 1)) ELSE s
\* str.strip()
Strip(s) == RStrip(LStrip(s))

\* model.replace("/", "-")
ReplaceSlash(model) == [k \in DOMAIN model |-> IF model[k] = "/" THEN "-" ELSE model[k]]

\* os.path.basename
Basename(path) == SubSeq(path, LastIndex(path, "/") + 1, Len(path))
\* os.path.dirname
Dirname(path) ==
  IF LastIndex(path, "/") = 0 THEN <<>> ELSE SubSeq(path, 1, LastIndex(path, "/") - 1)

\* os.path.splitext(path): <<root, ext>>, split at the last dot of the last
\* component (a name's leading dot is not an extension).
Splitext(path) ==
  LET slash == LastIndex(path, "/")
      dot   == LastIndex(path, ".")
  IN  IF dot > slash + 1
      THEN <<SubSeq(path, 1, dot - 1), SubSeq(path, dot, Len(path))>>
      ELSE <<path, <<>>>>

\* os.path.join(a, b) for a relative b.
Join(a, b) == IF a # <<>> /\ a[Len(a)] = "/" THEN a \o b ELSE a \o <<"/">> \o b

\* ------------------------------------------------------ the file system
\* The files and folders the image tool is run against.
P_ax == <<"a", "/", "x", ".", "p", "n", "g">>
P_ay == <<"a", "/", "y", ".", "p", "n", "g">>
P_az == <<"a", "/", "z", ".", "p", "n", "g">>
P_av == <<"a", "/", "v", ".", "j", "p", "e", "g">>
P_bx == <<"b", "/", "x", ".", "j", "p", "g">>
P_bw == <<"b", "/", "w", ".", "P", "N", "G">>
P_bn == <<"b", "/", "n", ".", "t", "x", "t">>
D_a == <<"a">>
D_b == <<"b">>
D_e == <<"e">>

PromptSuffix == <<"_", "p", "r", "o", "m", "p", "t", ".", "m", "d">>

PngFiles == {P_ax, P_bw}
JpegFiles == {P_bx, P_av}
\* P_ay holds a GIF, P_bn text; P_az does not exist.
OtherFiles == {P_ay, P_bn}
\* Sidecar prompt files: a/x has " x", b/x has only white space, b/w has one
\* that cannot be read, a/v has none.
SidecarContent ==
  [f \in {Splitext(P_ax)[1] \o PromptSuffix, Splitext(P_bx)[1] \o PromptSuffix}
     |-> IF f = Splitext(P_ax)[1] \o PromptSuffix THEN <<" ", "x", "\n">> ELSE <<" ", "\n">>]
UnreadableFiles == {Splitext(P_bw)[1] \o PromptSuffix}
Folders == {D_a, D_b, D_e}
AllFiles == PngFiles \cup JpegFiles \cup OtherFiles \cup DOMAIN SidecarContent \cup UnreadableFiles

\* os.path.exists
PathExists(path) == path \in AllFiles \cup Folders
\* os.path.isdir
IsDir(path) == path \in Folders
\* open(path, 'r'/'rb') succeeds
CanRead(path) == path \in AllFiles \ UnreadableFiles

PngMagic == <<137, 80, 78, 71, 13, 10, 26, 10>>
JpegMagic == <<255, 216, 255>>
\* f.read(8)
Header(path) ==
  IF path \in PngFiles THEN PngMagic
  ELSE IF path \in JpegFiles THEN <<255, 216, 255, 224, 0, 16, 74, 70>>
  ELSE <<71, 73, 70, 56, 57, 97, 1, 0>>

\* ------------------------------------------------- images.py, helpers
\* is_valid_image: <<is_valid, img_type>>
is_valid_image(image_path) ==
  IF ~CanRead(image_path) THEN <<FALSE, "Error reading file">>
  ELSE IF StartsWith(Header(image_path), PngMagic) THEN <<TRUE, "PNG">>
  ELSE IF StartsWith(Header(image_path), JpegMagic) THEN <<TRUE, "JPEG">>
  ELSE <<FALSE, "Not a PNG/JPEG image">>

valid_extensions == {<<".", "p", "n", "g">>, <<".", "j", "p", "g">>, <<".", "j", "p", "e", "g">>}

\* get_images_from_folder: the files below the folder with an image
\* extension (compared in lower case), sorted.
get_images_from_folder(folder_path) ==
  SortedSeq({f \in AllFiles :
               /\ StartsWith(f, folder_path \o <<"/">>)
               /\ Lower(Splitext(f)[2]) \in valid_extensions})

\* get_prompt_from_file: the stripped content of <root>_prompt.md, None
\* when it is missing or cannot be read.
get_prompt_from_file(image_path) ==
  LET prompt_file == Splitext(image_path)[1] \o PromptSuffix
  IN  IF PathExists(prompt_file)
      THEN IF CanRead(prompt_file) THEN Some(Strip(SidecarContent[prompt_file])) ELSE None
      ELSE None

\* The built-in prompt of process_images ("Convert the image to markdown ...").
default_prompt == <<"c", "o", "n", "v", "e", "r", "t">>

\* prompt or get_prompt_from_file(image_path) or default_prompt
SelectPrompt(prompt, image_path) ==
  IF TruthySeq(prompt) THEN Val(prompt)
  ELSE IF TruthySeq(get_prompt_from_file(image_path)) THEN Val(get_prompt_from_file(image_path))
  ELSE default_prompt

\* all_images of images.py's __main__: folders are scanned, files kept as given.
ExpandImages(paths) ==
  Concat([k \in DOMAIN paths |->
            IF IsDir(paths[k]) THEN get_images_from_folder(paths[k]) ELSE <<paths[k]>>])

\* ----------------------------------------------- exact tokens per second
\* A float is modelled as an exact fraction <<numerator, denominator>> in
\* lowest terms with a positive denominator.
RECURSIVE Gcd(_, _)
Gcd(a, b) == IF b = 0 THEN a ELSE Gcd(b, a % b)
Abs(a) == IF a < 0 THEN -a ELSE a
Frac(n, d) ==
  LET g == Gcd(Abs(n), Abs(d))
      s == IF d < 0 THEN -1 ELSE 1
  IN  <<s * (n \div g), s * (d \div g)>>
FracAdd(x, y) == Frac(x[1] * y[2] + y[1] * x[2], x[2] * y[2])
\* x / y for y # 0
FracDiv(x, y) == Frac(x[1] * y[2], x[2] * y[1])
FracOfInt(n) == <<n, 1>>
\* The value of a division by zero: Python raises ZeroDivisionError.
ZeroDivision == <<0, 0>>
\* x / n for an int n
DivByCount(x, n) == IF n = 0 THEN ZeroDivision ELSE FracDiv(x, FracOfInt(n))

\* 1e9
NsPerSecond == 1000000000
\* eval_count / (eval_duration / 1e9)
TokensPerSecond(eval_count, eval_duration) ==
  FracDiv(FracOfInt(eval_count), FracDiv(FracOfInt(eval_duration), FracOfInt(NsPerSecond)))

\* ------------------------------------------------------------- inputs
\* Model names as the service reports them; they differ only by '/' and '-'.
NameSlash == <<"o", "/", "v", ":", "l">>
NameDash == <<"o", "-", "v", ":", "l">>
ModelNames == {NameSlash, NameDash}

\* The values of the command line's options; None is an option not given.
ModelArgs == {None} \cup {Some(l) : l \in SeqsUpTo(ModelNames, MaxModels)}
PromptArgs == {None, Some(<<>>), Some(<<"p">>)}
RunArgs == {None} \cup {Some(n) : n \in 0..MaxRuns}
ImageArgs ==
  {None} \cup {Some(l) : l \in SeqsUpTo({P_ax, P_ay, P_az, P_av, D_b, D_e}, MaxImages)}

SpeedArgv == [models : ModelArgs, images : {None}, prompt : PromptArgs, num_runs : RunArgs]
ImagesArgv == [models : ModelArgs, images : ImageArgs, prompt : PromptArgs, num_runs : {None}]

\* What ollama.generate can do: raise, or return a dict in which each of
\* 'done', 'eval_count' and 'eval_duration' may be missing. The metrics with
\* both fields present are 10 tokens in 0 s or 1 s and 40 tokens in 2 s.
GenerateMetrics ==
  {<<None, Some(NsPerSecond)>>, <<Some(10), None>>, <<Some(10), Some(0)>>,
   <<Some(10), Some(NsPerSecond)>>, <<Some(40), Some(2 * NsPerSecond)>>}
GenerateResponses ==
  {[raises |-> TRUE, done |-> None, eval_count |-> None, eval_duration |-> None]} \cup
  {[raises |-> FALSE, done |-> d, eval_count |-> m[1], eval_duration |-> m[2]] :
     d \in {None, Some(TRUE), Some(FALSE)}, m \in GenerateMetrics}

\* What ollama.chat can do: raise, or return a dict holding some of the keys
\* the result is built from.
ChatKeys == {"message", "total_duration", "load_duration", "eval_duration", "eval_count"}
ChatResponses == [raises : BOOLEAN, keys : {ChatKeys} \cup {ChatKeys \ {k} : k \in ChatKeys}]

\* ---------------------------------------------------------------- state
VARIABLES
  tool,             \* "speed" or "images": the script that is run
  argv,             \* the parsed command line (args)
  pc,               \* where the script is
  exit_code,        \* the process's exit status, -1 while it runs
  help_printed,     \* parser.print_help() was called
  raised,           \* where an uncaught exception left the script: "none", "setup", "loop"
  models,           \* parameter models (an optional list)
  images,           \* parameter images
  prompt,           \* parameter prompt (optional in images.py)
  num_runs,         \* parameter num_runs
  installed_models, \* installed_models
  dirs,             \* the directories os.makedirs has created
  log,              \* the calls to the service and the files written, in order
  mi,               \* position of the for-model loop (1-based)
  ii,               \* position of the for-image loop (1-based)
  i,                \* loop variable of for i in range(num_runs)
  total_tps,
  current_run,
  successful_runs,
  run_results,
  result,           \* the dict last handed to json.dump (None before the first)
  last_line,        \* the kind of the last status line printed for a model
  current_prompt,
  image_name,
  img_type

vars ==
  <<tool, argv, pc, exit_code, help_printed, raised, models, images, prompt, num_runs,
    installed_models, dirs, log, mi, ii, i, total_tps, current_run, successful_runs,
    run_results, result, last_line, current_prompt, image_name, img_type>>

cli == <<tool, argv>>
params == <<models, images, prompt, num_runs>>
counters == <<total_tps, current_run, successful_runs, run_results>>
image_locals == <<current_prompt, image_name, img_type>>

Init ==
  /\ \/ tool = "speed" /\ argv \in SpeedArgv
     \/ tool = "images" /\ argv \in ImagesArgv
  /\ pc = "main"
  /\ exit_code = -1
  /\ help_printed = FALSE
  /\ raised = "none"
  /\ models = None
  /\ images = <<>>
  /\ prompt = None
  /\ num_runs = 0
  /\ installed_models = {}
  /\ dirs = {}
  /\ log = <<>>
  /\ mi = 0
  /\ ii = 0
  /\ i = 0
  /\ total_tps = FracOfInt(0)
  /\ current_run = 0
  /\ successful_runs = 0
  /\ run_results = <<>>
  /\ result = None
  /\ last_line = "none"
  /\ current_prompt = <<>>
  /\ image_name = <<>>
  /\ img_type = "none"

\* An entry of the log.
Event(op, model, path, text) ==
  [op |-> op, model |-> model, path |-> path, prompt |-> text, mi |-> mi, ii |-> ii]

\* exit(status), or the interpreter ending the process.
Exit(status) == pc' = "exit" /\ exit_code' = status
\* An exception nothing catches: traceback, exit status 1.
Uncaught(where) == raised' = where /\ Exit(1)

\* ----------------------------------------------------- shared pieces
\* The membership test left out: every model counts as installed.
IsInstalledAlways(model, installed) == TRUE

\* model not in installed_models, negated
IsInstalled(model, installed) == model \in installed

\* open(path, 'w') succeeds: the file's directory exists.
CanCreate(path) == Dirname(path) \in dirs

\* ------------------------------------------------------------ speed.py
\* The default of -p ("Why is the sky blue?").
speed_default_prompt == <<"s", "k", "y">>
\* platform.node()
computer_name == <<"h">>
\* os.path.join('data', 'speed', computer_name)
speed_data_folder == Join(Join(<<"d", "a", "t", "a">>, <<"s", "p", "e", "e", "d">>), computer_name)
info_file == Join(speed_data_folder, <<"c", "o", "m", "p", "u", "t", "e", "r", "_", "i", "n", "f", "o", ".", "j", "s", "o", "n">>)
JsonSuffix == <<".", "j", "s", "o", "n">>

\* f"{model.replace("/", "-")}.json"
SpeedOutputName(model) == ReplaceSlash(model) \o JsonSuffix

\* range(num_runs + 1): one iteration too many.
LoopHasNextOffByOne(done_iterations, n) == done_iterations <= n

\* for i in range(num_runs): there is a next value after i iterations
LoopHasNext(done_iterations, n) == done_iterations < n

\* The counters left as the previous model's loop ended.
StaleCounters ==
  [total_tps |-> total_tps, current_run |-> current_run,
   successful_runs |-> successful_runs, run_results |-> run_results]

\* total_tps = 0.0; current_run = 0; successful_runs = 0; run_results = []
FreshCounters ==
  [total_tps |-> FracOfInt(0), current_run |-> 0, successful_runs |-> 0, run_results |-> <<>>]

\* The average without its guard: total_tps / successful_runs.
AverageUnguarded(total, successful) == DivByCount(total, successful)

\* total_tps / successful_runs if successful_runs > 0 else 0
AverageTps(total, successful) ==
  IF successful > 0 THEN DivByCount(total, successful) ELSE FracOfInt(0)

RECURSIVE SumEvalCount(_)
\* sum(run['eval_count'] for run in run_results if 'eval_count' in run)
SumEvalCount(runs) ==
  IF runs = <<>> THEN 0
  ELSE (IF "eval_count" \in DOMAIN Head(runs) THEN Head(runs).eval_count ELSE 0)
       + SumEvalCount(Tail(runs))

\* response.get('done', False)
GetDone(response) == IF response.done = None THEN FALSE ELSE Val(response.done)

\* The run a response is recorded as: "error" (generate raised), "skip" (one
\* of the three continue statements) or "ok".
RunKind(response) ==
  IF response.raises THEN "error"
  ELSE IF ~GetDone(response) THEN "skip"
  ELSE IF None \in {response.eval_count, response.eval_duration} THEN "skip"
  ELSE IF Val(response.eval_duration) <= 0 THEN "skip"
  ELSE "ok"

\* __main__: no truthy option prints the help and exits 1, else the
\* benchmark is called with the defaults filled in.
SpeedMain ==
  /\ pc = "main" /\ tool = "speed"
  /\ IF ~(TruthySeq(argv.models) \/ TruthySeq(argv.prompt) \/ TruthyInt(argv.num_runs))
     THEN /\ help_printed' = TRUE
          /\ Exit(1)
          /\ UNCHANGED params
     ELSE /\ models' = argv.models
          /\ prompt' = Some(IF argv.prompt # None THEN Val(argv.prompt) ELSE speed_default_prompt)
          /\ num_runs' = (IF argv.num_runs # None THEN Val(argv.num_runs) ELSE 1)
          /\ pc' = "sp_setup"
          /\ UNCHANGED <<images, exit_code, help_printed>>
  /\ UNCHANGED <<cli, raised, installed_models, dirs, log, mi, ii, i, counters, result,
                 last_line, image_locals>>

\* benchmark_inference_speed up to the loop: the host-info file is written,
\* max(len(model) for model in models) raises TypeError when models is None,
\* ollama.list() gives the installed models.
SpeedSetup ==
  /\ pc = "sp_setup"
  /\ dirs' = dirs \cup {speed_data_folder}
  /\ log' = Append(log, Event("write", <<>>, info_file, <<>>))
  /\ IF models = None
     THEN /\ Uncaught("setup")
          /\ UNCHANGED <<installed_models, mi>>
     ELSE /\ \E installed \in SUBSET ModelNames : installed_models' = installed
          /\ mi' = 1
          /\ pc' = "sp_model"
          /\ UNCHANGED <<exit_code, raised>>
  /\ UNCHANGED <<cli, help_printed, params, ii, i, counters, result, last_line, image_locals>>

\* for model in models: exhausted, the function returns.
SpeedDone ==
  /\ pc = "sp_model" /\ mi > Len(Val(models))
  /\ Exit(0)
  /\ UNCHANGED <<cli, help_printed, raised, params, installed_models, dirs, log, mi, ii, i,
                 counters, result, last_line, image_locals>>

\* if model not in installed_models: ... continue
SpeedSkipModel ==
  /\ pc = "sp_model" /\ mi <= Len(Val(models))
  /\ ~IsInstalled(Val(models)[mi], installed_models)
  /\ last_line' = "not_installed"
  /\ mi' = mi + 1
  /\ UNCHANGED <<cli, pc, exit_code, help_printed, raised, params, installed_models, dirs,
                 log, ii, i, counters, result, image_locals>>

\* An installed model: the counters are reset and its run loop starts.
SpeedStartModel ==
  /\ pc = "sp_model" /\ mi <= Len(Val(models))
  /\ IsInstalled(Val(models)[mi], installed_models)
  /\ total_tps' = FreshCounters.total_tps
  /\ current_run' = FreshCounters.current_run
  /\ successful_runs' = FreshCounters.successful_runs
  /\ run_results' = FreshCounters.run_results
  /\ i' = 0
  /\ pc' = "sp_run"
  /\ UNCHANGED <<cli, exit_code, help_printed, raised, params, installed_models, dirs, log,
                 mi, ii, result, last_line, image_locals>>

\* One iteration of for i in range(num_runs): one call of ollama.generate.
\* (avg_tps of the progress line is total_tps / successful_runs with
\* successful_runs >= 1; it is only printed.)
SpeedRun ==
  /\ pc = "sp_run" /\ LoopHasNext(i, num_runs)
  /\ \E response \in GenerateResponses :
       /\ current_run' = i + 1
       /\ log' = Append(log, Event("generate", Val(models)[mi], <<>>, Val(prompt)))
       /\ CASE RunKind(response) = "error" ->
                 /\ run_results' = Append(run_results, [run |-> i + 1, error |-> "error"])
                 /\ UNCHANGED <<total_tps, successful_runs>>
            [] RunKind(response) = "skip" ->
                 UNCHANGED <<total_tps, successful_runs, run_results>>
            [] RunKind(response) = "ok" ->
                 LET tps == TokensPerSecond(Val(response.eval_count), Val(response.eval_duration))
                 IN  /\ total_tps' = FracAdd(total_tps, tps)
                     /\ successful_runs' = successful_runs + 1
                     /\ run_results' = Append(run_results,
                          [run |-> i + 1, tokens_per_second |-> tps,
                           eval_count |-> Val(response.eval_count),
                           eval_duration |-> Val(response.eval_duration)])
  /\ i' = i + 1
  /\ UNCHANGED <<cli, pc, exit_code, help_printed, raised, params, installed_models, dirs,
                 mi, ii, result, last_line, image_locals>>

\* After the run loop: the result is built and dumped to the model's file.
\* Neither statement is inside a try.
SpeedWrite ==
  /\ pc = "sp_run" /\ ~LoopHasNext(i, num_runs)
  /\ LET average == AverageTps(total_tps, successful_runs)
         output_file == Join(speed_data_folder, SpeedOutputName(Val(models)[mi]))
     IN  IF average = ZeroDivision \/ ~CanCreate(output_file)
         THEN /\ Uncaught("loop")
              /\ UNCHANGED <<result, log>>
         ELSE /\ result' = Some([model |-> Val(models)[mi],
                                 prompt |-> Val(prompt),
                                 total_runs |-> num_runs,
                                 successful_runs |-> successful_runs,
                                 average_tokens_per_second |-> average,
                                 total_eval_count |-> SumEvalCount(run_results),
                                 runs |-> run_results])
              /\ log' = Append(log, Event("write", Val(models)[mi], output_file, <<>>))
              /\ pc' = "sp_report"
              /\ UNCHANGED <<exit_code, raised>>
  /\ UNCHANGED <<cli, help_printed, params, installed_models, dirs, mi, ii, i, counters,
                 last_line, image_locals>>

\* if successful_runs == 0: the warning line, continue. (result is not read
\* after the dump; the model forgets it when the iteration ends.)
SpeedReportWarning ==
  /\ pc = "sp_report" /\ successful_runs = 0
  /\ last_line' = "warning"
  /\ result' = None
  /\ mi' = mi + 1
  /\ pc' = "sp_model"
  /\ UNCHANGED <<cli, exit_code, help_printed, raised, params, installed_models, dirs, log,
                 ii, i, counters, image_locals>>

\* The success line with the average and the total of tokens.
SpeedReportSuccess ==
  /\ pc = "sp_report" /\ successful_runs # 0
  /\ last_line' = "success"
  /\ result' = None
  /\ mi' = mi + 1
  /\ pc' = "sp_model"
  /\ UNCHANGED <<cli, exit_code, help_printed, raised, params, installed_models, dirs, log,
                 ii, i, counters, image_locals>>

SpeedNext ==
  \/ SpeedMain
  \/ SpeedSetup
  \/ SpeedDone
  \/ SpeedSkipModel
  \/ SpeedStartModel
  \/ SpeedRun
  \/ SpeedWrite
  \/ SpeedReportWarning
  \/ SpeedReportSuccess

\* ----------------------------------------------------------- images.py
ImagesRoot == <<"d", "a", "t", "a", "/", "i", "m", "a", "g", "e", "s", "/">>
\* os.path.join('data/images/', image_name)
ImageDataFolder(name) == Join(ImagesRoot, name)
\* os.path.join(data_folder, f"{model}.json")
ImageOutputFile(name, model) == Join(ImageDataFolder(name), model \o JsonSuffix)

\* __main__: -m and -i are required=True, so argparse itself ends the run
\* with a usage error (status 2) when one is missing; the any() test comes
\* after it. Then folders are expanded, and an empty list exits 1.
ImagesMain ==
  /\ pc = "main" /\ tool = "images"
  /\ IF argv.models = None \/ argv.images = None
     THEN /\ Exit(2)
          /\ UNCHANGED <<help_printed, params, dirs>>
     ELSE IF ~(TruthySeq(argv.models) \/ TruthySeq(argv.images) \/ TruthySeq(argv.prompt))
     THEN /\ help_printed' = TRUE
          /\ Exit(1)
          /\ UNCHANGED <<params, dirs>>
     ELSE /\ dirs' = dirs \cup {<<"d", "a", "t", "a">>}
          /\ IF ExpandImages(Val(argv.images)) = <<>>
             THEN /\ Exit(1)
                  /\ UNCHANGED params
             ELSE /\ models' = argv.models
                  /\ images' = ExpandImages(Val(argv.images))
                  /\ prompt' = argv.prompt
                  /\ pc' = "im_setup"
                  /\ UNCHANGED <<num_runs, exit_code>>
          /\ UNCHANGED help_printed
  /\ UNCHANGED <<cli, raised, installed_models, log, mi, ii, i, counters, result, last_line,
                 image_locals>>

\* process_images up to the loop: ollama.list() gives the installed models.
ImagesSetup ==
  /\ pc = "im_setup"
  /\ \E installed \in SUBSET ModelNames : installed_models' = installed
  /\ ii' = 1
  /\ pc' = "im_image"
  /\ UNCHANGED <<cli, exit_code, help_printed, raised, params, dirs, log, mi, i, counters,
                 result, last_line, image_locals>>

\* for image_path in images: exhausted, the function returns.
ImagesDone ==
  /\ pc = "im_image" /\ ii > Len(images)
  /\ Exit(0)
  /\ UNCHANGED <<cli, help_printed, raised, params, installed_models, dirs, log, mi, ii, i,
                 counters, result, last_line, image_locals>>

\* if not os.path.exists(image_path): ... continue
ImageNotFound ==
  /\ pc = "im_image" /\ ii <= Len(images)
  /\ ~PathExists(images[ii])
  /\ last_line' = "image_not_found"
  /\ ii' = ii + 1
  /\ UNCHANGED <<cli, pc, exit_code, help_printed, raised, params, installed_models, dirs,
                 log, mi, i, counters, result, image_locals>>

\* if not is_valid: ... continue
ImageInvalid ==
  /\ pc = "im_image" /\ ii <= Len(images)
  /\ PathExists(images[ii])
  /\ ~is_valid_image(images[ii])[1]
  /\ last_line' = "invalid_image"
  /\ ii' = ii + 1
  /\ UNCHANGED <<cli, pc, exit_code, help_printed, raised, params, installed_models, dirs,
                 log, mi, i, counters, result, image_locals>>

\* A valid image: its prompt is chosen, its output folder made, its bytes
\* encoded, and the loop over the models starts.
ImageOpen ==
  /\ pc = "im_image" /\ ii <= Len(images)
  /\ PathExists(images[ii])
  /\ is_valid_image(images[ii])[1]
  /\ img_type' = is_valid_image(images[ii])[2]
  /\ current_prompt' = SelectPrompt(prompt, images[ii])
  /\ image_name' = Splitext(Basename(images[ii]))[1]
  /\ dirs' = dirs \cup {ImageDataFolder(Splitext(Basename(images[ii]))[1])}
  /\ mi' = 1
  /\ pc' = "im_model"
  /\ UNCHANGED <<cli, exit_code, help_printed, raised, params, installed_models, log, ii, i,
                 counters, result, last_line>>

\* for model in models: exhausted, on to the next image.
ImageModelsDone ==
  /\ pc = "im_model" /\ mi > Len(Val(models))
  /\ ii' = ii + 1
  /\ pc' = "im_image"
  /\ UNCHANGED <<cli, exit_code, help_printed, raised, params, installed_models, dirs, log,
                 mi, i, counters, result, last_line, image_locals>>

\* if model not in installed_models: ... continue
ImageSkipModel ==
  /\ pc = "im_model" /\ mi <= Len(Val(models))
  /\ ~IsInstalled(Val(models)[mi], installed_models)
  /\ last_line' = "not_installed"
  /\ mi' = mi + 1
  /\ UNCHANGED <<cli, pc, exit_code, help_printed, raised, params, installed_models, dirs,
                 log, ii, i, counters, result, image_locals>>

\* One call of ollama.chat. The try covers the call, the reads of the
\* response's keys and the dump of the result; the except clause dumps an
\* error record to the same path, and nothing catches what that open raises.
ImageChat ==
  /\ pc = "im_model" /\ mi <= Len(Val(models))
  /\ IsInstalled(Val(models)[mi], installed_models)
  /\ \E response \in ChatResponses :
       LET model == Val(models)[mi]
           output_file == ImageOutputFile(image_name, model)
           called == Append(log, Event("chat", model, <<>>, current_prompt))
           kind == IF response.raises \/ response.keys # ChatKeys THEN "error" ELSE "response"
       IN  IF CanCreate(output_file)
           THEN /\ result' = Some([kind |-> kind, model |-> model, image |-> image_name,
                                   image_type |-> img_type])
                /\ log' = Append(called, Event("write", model, output_file, <<>>))
                /\ last_line' = kind
                /\ mi' = mi + 1
                /\ UNCHANGED <<pc, exit_code, raised>>
           ELSE /\ log' = called
                /\ Uncaught("loop")
                /\ UNCHANGED <<result, last_line, mi>>
  /\ UNCHANGED <<cli, help_printed, params, installed_models, dirs, ii, i, counters,
                 image_locals>>

ImagesNext ==
  \/ ImagesMain
  \/ ImagesSetup
  \/ ImagesDone
  \/ ImageNotFound
  \/ ImageInvalid
  \/ ImageOpen
  \/ ImageModelsDone
  \/ ImageSkipModel
  \/ ImageChat

Next == SpeedNext \/ ImagesNext

\* Either script, from the start of its process.
Spec == Init /\ [][Next]_vars

\* speed.py alone.
SpeedInit == Init /\ tool = "speed"
SpeedSpec == SpeedInit /\ [][SpeedNext]_vars

\* ------------------------------------------------- reading the log
IsCall(e) == e.op \in {"generate", "chat"}
\* The entries of the log made for position m of the model list (and, in the
\* image tool, position a of the image list) with operation op.
Entries(op, a, m) == {k \in DOMAIN log : log[k].op = op /\ log[k].ii = a /\ log[k].mi = m}
GenerateCount(m) == Cardinality(Entries("generate", 0, m))
OkRuns(runs) == {k \in DOMAIN runs : "tokens_per_second" \in DOMAIN runs[k]}
ErrorRuns(runs) == {k \in DOMAIN runs : "error" \in DOMAIN runs[k]}

RECURSIVE SumTps(_)
\* The sum of tokens_per_second over the entries that carry it.
SumTps(runs) ==
  IF runs = <<>> THEN FracOfInt(0)
  ELSE IF "tokens_per_second" \in DOMAIN Head(runs)
       THEN FracAdd(Head(runs).tokens_per_second, SumTps(Tail(runs)))
       ELSE SumTps(Tail(runs))

\* An image of the list that passes both checks of the image loop.
ValidImage(a) == PathExists(images[a]) /\ is_valid_image(images[a])[1]
\* No option at all was given on the command line.
NoArguments ==
  argv.models = None /\ argv.images = None /\ argv.prompt = None /\ argv.num_runs = None
\* images.py found no image to process.
NoImagesFound ==
  tool = "images" /\ argv.models # None /\ argv.images # None
  /\ ExpandImages(Val(argv.images)) = <<>>

\* ---------------------------------------------------------------- claims

\* C1: in the benchmark tool every run that fails or returns incomplete
\* metrics is left out of successful_runs but recorded with an error marker,
\* so the written 'runs' list holds exactly one record per run index
\* 1..num_runs.
C1_EveryRunRecorded ==
  (tool = "speed" /\ pc = "sp_report") =>
     /\ Len(Val(result).runs) = num_runs
     /\ \A k \in 1..num_runs : Val(result).runs[k].run = k
     /\ Val(result).successful_runs = num_runs - Cardinality(ErrorRuns(Val(result).runs))

\* C2: a model that is not in the list ollama.list() returned is never passed
\* to ollama.chat or ollama.generate and no result file is written for it;
\* the step that meets such a model only moves on to the next model.
C2_UninstalledNeverInvoked ==
  /\ [](\A k \in DOMAIN log : log[k].model # <<>> => log[k].model \in installed_models)
  /\ [][(/\ pc \in {"sp_model", "im_model"}
         /\ mi <= Len(Val(models))
         /\ Val(models)[mi] \notin installed_models)
        => (log' = log /\ dirs' = dirs /\ mi' = mi + 1 /\ pc' = pc /\ exit_code' = exit_code)]_vars

\* Reached for C2: a model after an uninstalled one in the list was invoked.
C2_Witness ==
  \E k \in DOMAIN log :
    /\ IsCall(log[k])
    /\ \E m \in 1..(log[k].mi - 1) : Val(models)[m] \notin installed_models

\* C3: in the image tool, when the run is over every (valid image, installed
\* model) pair has had exactly one chat call and one record written, whether
\* chat raised for it or not.
C3_EveryPairProcessed ==
  (tool = "images" /\ pc = "exit" /\ images # <<>>) =>
     \A a \in DOMAIN images : \A m \in DOMAIN Val(models) :
        (ValidImage(a) /\ Val(models)[m] \in installed_models) =>
           /\ Cardinality(Entries("chat", a, m)) = 1
           /\ Cardinality(Entries("write", a, m)) = 1

\* C4: no exception propagates out of the per-image or per-model loop of
\* either tool.
C4_NoExceptionLeavesLoop == raised # "loop"

\* C5: during one invocation no output file path is written more than once.
C5_WriteOnce ==
  \A j \in DOMAIN log : \A k \in DOMAIN log :
     (j < k /\ log[j].op = "write" /\ log[k].op = "write") => log[j].path # log[k].path

\* C6: in the benchmark tool the written result has successful_runs equal to
\* the number of runs with valid metrics and average_tokens_per_second equal
\* to the sum of their tokens/sec divided by successful_runs; with no
\* successful run the average is 0, nothing is divided, the file is still
\* written and the warning line is printed instead of the success line.
C6_AverageOfSuccessfulRuns ==
  tool = "speed" =>
     /\ raised # "loop"
     /\ pc = "sp_report" =>
          LET r == Val(result)
              ok == OkRuns(r.runs)
          IN  /\ r.successful_runs = Cardinality(ok)
              /\ r.total_runs = num_runs
              /\ IF ok = {}
                 THEN r.average_tokens_per_second = FracOfInt(0)
                 ELSE r.average_tokens_per_second
                        = FracDiv(SumTps(r.runs), FracOfInt(Cardinality(ok)))
              /\ log[Len(log)].op = "write"
              /\ log[Len(log)].model = r.model
              /\ r.model = Val(models)[mi]
     /\ (pc = "sp_model" /\ last_line \in {"warning", "success"}) =>
          (last_line = "warning" <=> successful_runs = 0)

\* Reached for C6: runs of 10 and 20 tokens/sec and one failed run, written
\* with successful_runs = 2 and an average of 15.
C6_Witness ==
  /\ tool = "speed" /\ pc = "sp_report"
  /\ Val(result).total_runs = 3
  /\ Val(result).successful_runs = 2
  /\ Cardinality(ErrorRuns(Val(result).runs)) = 1
  /\ Val(result).average_tokens_per_second = FracOfInt(15)

\* C7: in the benchmark tool ollama.generate is called exactly num_runs times
\* for every installed model of the list and never for another, the runs of a
\* model all come before those of the next one, the model's file is written
\* after its last run and before the next model's first, and the tool ends
\* after at most len(models) * num_runs calls: the loops only move forward
\* through the list and through range(num_runs), one call per iteration.
C7_RunsInOrder ==
  (tool = "speed" /\ models # None) =>
     /\ raised # "loop"
     /\ \A k \in 1..(Len(log) - 1) :
          /\ log[k].mi <= log[k + 1].mi
          /\ log[k].op = "write" => log[k].mi < log[k + 1].mi
     /\ \A m \in DOMAIN Val(models) : GenerateCount(m) <= num_runs
     /\ Cardinality({k \in DOMAIN log : log[k].op = "generate"}) <= Len(Val(models)) * num_runs
     /\ pc = "sp_report" =>
          GenerateCount(mi) = num_runs /\ Cardinality(Entries("write", 0, mi)) = 1
     /\ pc = "exit" =>
          \A m \in DOMAIN Val(models) :
             IF Val(models)[m] \in installed_models
             THEN GenerateCount(m) = num_runs /\ Cardinality(Entries("write", 0, m)) = 1
             ELSE GenerateCount(m) = 0 /\ Entries("write", 0, m) = {}
     /\ pc = "sp_model" => mi \in 1..(Len(Val(models)) + 1)
     /\ pc \in {"sp_run", "sp_report"} =>
          /\ mi \in 1..Len(Val(models))
          /\ Val(models)[mi] \in installed_models
          /\ i = GenerateCount(mi)

\* Reached for C7: two installed models, several runs each, one of which
\* raised, and the tool has finished.
C7_Witness ==
  /\ tool = "speed" /\ pc = "exit" /\ exit_code = 0
  /\ Len(Val(models)) = 2
  /\ \A m \in 1..2 : Val(models)[m] \in installed_models
  /\ num_runs >= 2
  /\ ErrorRuns(run_results) # {}

\* The prompt C8 names for position a of the image list.
C8_ExpectedPrompt(a) ==
  LET sidecar == Splitext(images[a])[1] \o PromptSuffix
  IN  IF prompt # None THEN Val(prompt)
      ELSE IF PathExists(sidecar) /\ CanRead(sidecar) THEN Strip(SidecarContent[sidecar])
      ELSE default_prompt

\* C8: the prompt sent with an image is the -p override if one was supplied,
\* otherwise the content of the image's sidecar file if it exists and can be
\* read, otherwise the default, also when the override or the sidecar content
\* is empty.
C8_PromptPrecedence ==
  \A k \in DOMAIN log :
     log[k].op = "chat" => log[k].prompt = C8_ExpectedPrompt(log[k].ii)

\* C9: a run without any flag prints the help and exits with status 1, and
\* the process exits non-zero only when no argument was supplied or (image
\* tool) no image was found.
C9_ExitStatus ==
  pc = "exit" =>
     /\ NoArguments => (help_printed /\ exit_code = 1)
     /\ exit_code # 0 => (NoArguments \/ NoImagesFound)

\* C10: throughout a model's run loop successful_runs counts the entries of
\* run_results that carry tokens_per_second, total_tps is their sum,
\* len(run_results) <= current_run <= num_runs, the run indices increase
\* strictly, the counters start from zero for each model and count only that
\* model's calls, and the written total_eval_count sums eval_count over the
\* successful entries.
C10_CountersConsistent ==
  (tool = "speed" /\ pc \in {"sp_run", "sp_report"}) =>
     /\ successful_runs = Cardinality(OkRuns(run_results))
     /\ total_tps = SumTps(run_results)
     /\ Len(run_results) <= current_run
     /\ current_run <= num_runs
     /\ current_run = GenerateCount(mi)
     /\ \A j \in DOMAIN run_results : \A k \in DOMAIN run_results :
          j < k => run_results[j].run < run_results[k].run
     /\ \A k \in DOMAIN run_results : run_results[k].run \in 1..current_run
     /\ (pc = "sp_run" /\ i = 0) =>
          (total_tps = FracOfInt(0) /\ successful_runs = 0 /\ run_results = <<>>)
     /\ pc = "sp_report" =>
          /\ Val(result).runs = run_results
          /\ Val(result).successful_runs = Cardinality(OkRuns(run_results))
          /\ Val(result).total_eval_count = SumEvalCount(SelectSeq(run_results,
               LAMBDA r : "tokens_per_second" \in DOMAIN r))

\* Reached for C10: the second model's loop, after a model with successful
\* runs, holding a successful run, a raised run and a skipped run.
C10_Witness ==
  /\ tool = "speed" /\ pc = "sp_run" /\ mi = 2
  /\ \E k \in DOMAIN log : log[k].op = "write" /\ log[k].mi = 1
  /\ successful_runs = 1
  /\ ErrorRuns(run_results) # {}
  /\ Len(run_results) < current_run

====
